---- MODULE Spec2Model ----
(***************************************************************************)
(* Model of sftp-sync.py: one process invocation (main -> SftpSync ->      *)
(* transfer) at a time, over a state file on local disk, a remote source   *)
(* directory and a remote destination.  Every remote call (get, put, POST) *)
(* either returns or raises; the source has no try/except around any of    *)
(* them, so a raised exception ends the process.                           *)
(***************************************************************************)
EXTENDS Naturals, Integers, Sequences, FiniteSets, TLC

\* ---------------------------------------------------------------- bounds
NumFiles == 3
MaxSize == 1

AllNames == <<"A", "B", "C", "D", "E">>
Files == {AllNames[k] : k \in 1..NumFiles}
Sizes == 0..MaxSize

Range(s) == {s[k] : k \in DOMAIN s}
Orders(S) == {s \in [1..Cardinality(S) -> S] : Range(s) = S}
\* what listdir_attr can return: some of the files, each with an st_size
Listings == UNION {[S -> Sizes] : S \in SUBSET Files}
SeedLists == UNION {Orders(S) : S \in SUBSET Files}

VARIABLES
    stateFile,     \* the pickle on disk: [exists, whole, files]
    remote,        \* source directory: filename -> st_size
    delivered,     \* filenames whose bytes reached the destination by a put
    pc,            \* position of the running process, "idle" when none runs
    dry_run, zip, slack,       \* --dry-run, [main] zip, [main] slack
    config,        \* the ConfigParser object: [sections, source, dest]
    conns,         \* paramiko.Transport connections this run asked for
    transferred,   \* local list in transfer()
    file_details,  \* self.file_details
    diff,          \* local set in transfer()
    order,         \* iteration order of the set diff in this process
    i,             \* index of the loop of line 120 in order
    local_files,   \* local list in transfer()
    loaded,        \* what load_state returned in this run
    fetched,       \* filenames this run got from the source
    put,           \* filenames this run put to the destination one by one
    zipPuts,       \* archives this run put to the destination
    posted,        \* webhook POSTs this run completed
    raised,        \* the exception that ended this run, "none" if none
    stored,        \* store_state calls of this run
    lastRun,       \* mode of the last run if it was a non-dry run no remote
                   \* call of which failed and the source has gained nothing
                   \* since, else "none"
    repeatRun      \* this run repeats lastRun in the same mode

cfg == <<dry_run, zip, slack, config, conns>>
locals == <<transferred, file_details, diff, order, i, local_files>>
history == <<loaded, fetched, put, zipPuts, posted, stored>>
vars == <<stateFile, remote, delivered, pc, cfg, locals, history, raised,
          lastRun, repeatRun>>

NoStateFile == [exists |-> FALSE, whole |-> TRUE, files |-> <<>>]
\* what open(..., 'wb') and an unfinished pickle.dump leave: no STOP opcode
TornStateFile == [exists |-> TRUE, whole |-> FALSE, files |-> <<>>]
NoDetails == [f \in {} |-> 0]

\* ------------------------------------------------------- configuration
default_port == 22

\* what a PORT key can hold: configparser keeps every value as a string
PortTexts == {"22", "2222", "abc"}
\* int(text): whether it raises ValueError, and its value when it does not
Numeric(t) == t \in {"22", "2222"}
ParseInt(t) == IF t = "22" THEN 22 ELSE 2222
\* str(port)
Str(n) == IF n = 22 THEN "22" ELSE "2222"

\* a [source] or [dest] section: are HOST, USER and PASS all there, and PORT
NoSection == [keys |-> FALSE, PORT |-> "absent"]
Sections ==
    {NoSection} \cup {[keys |-> TRUE, PORT |-> t] : t \in {"absent"} \cup PortTexts}
\* sections: source, dest and main are there, with name and archive_dir
NoConfig == [sections |-> FALSE, source |-> NoSection, dest |-> NoSection]
Configs ==
    {NoConfig} \cup {[sections |-> TRUE, source |-> a, dest |-> b] :
                         a \in Sections, b \in Sections}
PlainSection == [keys |-> TRUE, PORT |-> "absent"]

\* _validate_port when it returns: `port` is never assigned after line 73
validate_port(sec) == default_port

\* _validate_port prints "PORT must be a number" and exits
PortIsBad(sec) == sec.PORT # "absent" /\ ~Numeric(sec.PORT)

\* _validate_sftp_config exits
SectionIsBad(sec) == ~sec.keys \/ PortIsBad(sec)

\* _validate_sftp_config when it returns: line 69 overwrites PORT in place
validate_sftp_config(sec) == [sec EXCEPT !.PORT = Str(validate_port(sec))]

\* line 86: the port the transport is opened on
ConnectPort(sec) == ParseInt(validate_sftp_config(sec).PORT)

\* ------------------------------------------------------- pure functions
\* load_state: the unpickled list, [] on FileNotFoundError
load_state(sf) == IF sf.exists THEN sf.files ELSE <<>>

\* pickle.load raises (EOFError, UnpicklingError); line 102 does not catch it
Unpicklable(sf) == sf.exists /\ ~sf.whole

\* store_state: open(..., 'wb') creates or replaces the file
store_state(files) == [exists |-> TRUE, whole |-> TRUE, files |-> files]

\* variant: the st_size test of line 148 left out
ReadAllSourceFiles(listing) == listing

\* read_source_files: only entries with a truthy st_size are recorded
read_source_files(listing) ==
    [f \in {g \in DOMAIN listing : listing[g] # 0} |-> listing[f]]

\* variant: the subtraction of line 117 left out
DiffNoSubtract(source_files, done) == source_files

\* line 117: set(source_files) - set(transferred)
Diff(source_files, done) == source_files \ Range(done)

\* the class body binds `archive` twice (property at line 110, method at
\* line 141); the later binding wins, so self.archive is a bound method
ArchiveTruthy == TRUE

ModeOf(z) == IF z THEN "zip" ELSE "direct"

\* the source lost files at most: nothing new, nothing grown
NoNew(old, new) ==
    \A f \in DOMAIN new : f \in DOMAIN old /\ new[f] = old[f]

\* ---------------------------------------------------------------- Init
InitRun ==
    /\ pc = "idle"
    /\ dry_run = FALSE /\ zip = FALSE /\ slack = FALSE
    /\ config = NoConfig /\ conns = <<>>
    /\ transferred = <<>> /\ file_details = NoDetails /\ diff = {}
    /\ order = <<>> /\ i = 1 /\ local_files = <<>>
    /\ loaded = <<>> /\ fetched = {} /\ put = {} /\ zipPuts = <<>>
    /\ posted = 0 /\ raised = "none" /\ stored = 0
    /\ lastRun = "none" /\ repeatRun = FALSE
    /\ delivered = {}

\* first invocation ever: no state file
Init ==
    /\ stateFile = NoStateFile
    /\ remote \in Listings
    /\ InitRun

\* invocation over a state file left by earlier use
InitSeeded ==
    /\ stateFile \in {NoStateFile} \cup {store_state(s) : s \in SeedLists}
    /\ remote \in Listings
    /\ InitRun

\* ------------------------------------------------------------- actions
\* files arrive at, change at or leave the source between invocations
EnvChange ==
    /\ pc = "idle"
    /\ \E r \in Listings \ {remote} :
        /\ remote' = r
        /\ lastRun' = IF NoNew(remote, r) THEN lastRun ELSE "none"
    /\ UNCHANGED <<stateFile, delivered, pc, cfg, locals, history, raised,
                   repeatRun>>

\* main(): parse_args, get_config, SftpSync(config, dry_run), over a
\* configuration that names both endpoints by HOST, USER and PASS and with
\* both endpoints accepting the connection
Main ==
    /\ pc = "idle"
    /\ \E d \in BOOLEAN, z \in BOOLEAN, s \in BOOLEAN :
        /\ dry_run' = d /\ zip' = z /\ slack' = s
        /\ repeatRun' = (~d /\ lastRun = ModeOf(z))
    /\ config' = [sections |-> TRUE,
                  source |-> validate_sftp_config(PlainSection),
                  dest |-> validate_sftp_config(PlainSection)]
    /\ conns' = <<[to |-> "source", port |-> ConnectPort(PlainSection)],
                  [to |-> "dest", port |-> ConnectPort(PlainSection)]>>
    /\ file_details' = NoDetails
    /\ pc' = "transfer"
    /\ UNCHANGED <<stateFile, remote, delivered, transferred, diff, order, i,
                   local_files, history, raised, lastRun>>

\* an exception nobody catches leaves transfer() and ends the process
Raise(kind) ==
    /\ pc' = "aborted"
    /\ raised' = kind

\* main() over any configuration file: parse_args and config.read
MainConfig ==
    /\ pc = "idle"
    /\ \E d \in BOOLEAN, z \in BOOLEAN, s \in BOOLEAN :
        /\ dry_run' = d /\ zip' = z /\ slack' = s
        /\ repeatRun' = (~d /\ lastRun = ModeOf(z))
    /\ config' \in Configs
    /\ conns' = <<>>
    /\ file_details' = NoDetails
    /\ pc' = "get_config"
    /\ UNCHANGED <<stateFile, remote, delivered, transferred, diff, order, i,
                   local_files, history, raised, lastRun>>

\* get_config returns: lines 31-44
GetConfigOk ==
    /\ pc = "get_config"
    /\ config.sections
    /\ pc' = "connect_source"
    /\ UNCHANGED <<stateFile, remote, delivered, cfg, locals, history,
                   raised, lastRun, repeatRun>>

\* get_config calls sys.exit(1): lines 33-34, 37-38, 41-42
GetConfigExit ==
    /\ pc = "get_config"
    /\ ~config.sections
    /\ Raise("SystemExit")
    /\ UNCHANGED <<stateFile, remote, delivered, cfg, locals, history,
                   lastRun, repeatRun>>

\* __init__ calls get_sftp_connection for source (line 56), then dest
Endpoint == IF pc = "connect_source" THEN "source" ELSE "dest"

\* _validate_sftp_config calls sys.exit(1): line 66 or line 79
ConfigExit ==
    /\ pc \in {"connect_source", "connect_dest"}
    /\ SectionIsBad(config[Endpoint])
    /\ Raise("SystemExit")
    /\ UNCHANGED <<stateFile, remote, delivered, cfg, locals, history,
                   lastRun, repeatRun>>

\* get_sftp_connection returns: lines 84-96
ConnectOk ==
    /\ pc \in {"connect_source", "connect_dest"}
    /\ ~SectionIsBad(config[Endpoint])
    /\ config' = [config EXCEPT ![Endpoint] = validate_sftp_config(@)]
    /\ conns' = Append(conns, [to |-> Endpoint,
                               port |-> ConnectPort(config[Endpoint])])
    /\ pc' = IF pc = "connect_source" THEN "connect_dest" ELSE "transfer"
    /\ UNCHANGED <<stateFile, remote, delivered, dry_run, zip, slack, locals,
                   history, raised, lastRun, repeatRun>>

\* paramiko.Transport, transport.connect or sftp.chdir raises: lines 86-94
ConnectFail ==
    /\ pc \in {"connect_source", "connect_dest"}
    /\ ~SectionIsBad(config[Endpoint])
    /\ config' = [config EXCEPT ![Endpoint] = validate_sftp_config(@)]
    /\ conns' = Append(conns, [to |-> Endpoint,
                               port |-> ConnectPort(config[Endpoint])])
    /\ Raise("connect")
    /\ UNCHANGED <<stateFile, remote, delivered, dry_run, zip, slack, locals,
                   history, lastRun, repeatRun>>

\* transfer(), lines 114-119
TransferBegin ==
    /\ pc = "transfer"
    /\ ~Unpicklable(stateFile)
    /\ transferred' = load_state(stateFile)
    /\ loaded' = load_state(stateFile)
    /\ file_details' = read_source_files(remote)
    /\ diff' = Diff(DOMAIN file_details', transferred')
    /\ order' \in Orders(diff')
    /\ i' = 1
    /\ local_files' = <<>>
    /\ pc' = "loop"
    /\ UNCHANGED <<stateFile, remote, delivered, cfg, fetched, put, zipPuts,
                   posted, stored, raised, lastRun, repeatRun>>

\* variant: load_state catches every exception and returns []
LoadStateRaisesAsEmpty ==
    /\ pc = "transfer"
    /\ Unpicklable(stateFile)
    /\ transferred' = <<>>
    /\ loaded' = <<>>
    /\ file_details' = read_source_files(remote)
    /\ diff' = Diff(DOMAIN file_details', transferred')
    /\ order' \in Orders(diff')
    /\ i' = 1
    /\ local_files' = <<>>
    /\ pc' = "loop"
    /\ UNCHANGED <<stateFile, remote, delivered, cfg, fetched, put, zipPuts,
                   posted, stored, raised, lastRun, repeatRun>>

\* line 114 over a state file that does not unpickle: the exception leaves
\* load_state and transfer()
LoadStateRaises ==
    /\ pc = "transfer"
    /\ Unpicklable(stateFile)
    /\ Raise("unpickle")
    /\ UNCHANGED <<stateFile, remote, delivered, cfg, locals, history,
                   lastRun, repeatRun>>

\* variant: line 128 runs in the dry-run branch as well
LoopDryRunMarks ==
    /\ pc = "loop" /\ i <= Len(order) /\ dry_run
    /\ i' = i + 1
    /\ transferred' = Append(transferred, order[i])
    /\ UNCHANGED <<stateFile, remote, delivered, pc, cfg, file_details, diff,
                   order, local_files, history, raised, lastRun, repeatRun>>

\* lines 121-122
LoopDryRun ==
    /\ pc = "loop" /\ i <= Len(order) /\ dry_run
    /\ i' = i + 1
    /\ UNCHANGED <<stateFile, remote, delivered, pc, cfg, transferred,
                   file_details, diff, order, local_files, history, raised,
                   lastRun, repeatRun>>

\* download_file returns: line 125 (zip) or line 174 (transfer_file)
DownloadOk ==
    /\ pc = "loop" /\ i <= Len(order) /\ ~dry_run
    /\ order[i] \in DOMAIN remote
    /\ fetched' = fetched \cup {order[i]}
    /\ IF zip
       THEN /\ local_files' = Append(local_files, order[i])
            /\ i' = i + 1
            /\ pc' = "loop"
       ELSE /\ UNCHANGED <<local_files, i>>
            /\ pc' = "put"
    /\ UNCHANGED <<stateFile, remote, delivered, cfg, transferred,
                   file_details, diff, order, loaded, put, zipPuts, posted,
                   stored, raised, lastRun, repeatRun>>

\* variant: the batch is recorded and saved before the exception leaves
DownloadFailSaved ==
    /\ pc = "loop" /\ i <= Len(order) /\ ~dry_run
    /\ Raise("fetch")
    /\ stateFile' = IF zip THEN store_state(transferred \o order)
                          ELSE stateFile
    /\ UNCHANGED <<remote, delivered, cfg, locals, history, lastRun,
                   repeatRun>>

\* self.source.get raises
DownloadFail ==
    /\ pc = "loop" /\ i <= Len(order) /\ ~dry_run
    /\ Raise("fetch")
    /\ UNCHANGED <<stateFile, remote, delivered, cfg, locals, history,
                   lastRun, repeatRun>>

\* line 175 returns
PutOk ==
    /\ pc = "put"
    /\ put' = put \cup {order[i]}
    /\ delivered' = delivered \cup {order[i]}
    /\ pc' = "notify"
    /\ UNCHANGED <<stateFile, remote, cfg, locals, loaded, fetched, zipPuts,
                   posted, stored, raised, lastRun, repeatRun>>

\* variant: the source file is moved away although its put raised
PutFailRenames ==
    /\ pc = "put"
    /\ Raise("put")
    /\ remote' = [f \in DOMAIN remote \ {order[i]} |-> remote[f]]
    /\ UNCHANGED <<stateFile, delivered, cfg, locals, history, lastRun,
                   repeatRun>>

\* line 175 raises
PutFail ==
    /\ pc = "put"
    /\ Raise("put")
    /\ UNCHANGED <<stateFile, remote, delivered, cfg, locals, history,
                   lastRun, repeatRun>>

AfterNotify == IF pc = "notify" THEN "mark" ELSE "zipmark"

\* notify(): no sink configured
NotifySkip ==
    /\ pc \in {"notify", "zipnotify"} /\ ~slack
    /\ pc' = AfterNotify
    /\ UNCHANGED <<stateFile, remote, delivered, cfg, locals, history,
                   raised, lastRun, repeatRun>>

\* notify(): requests.post returns
NotifyOk ==
    /\ pc \in {"notify", "zipnotify"} /\ slack
    /\ posted' = posted + 1
    /\ pc' = AfterNotify
    /\ UNCHANGED <<stateFile, remote, delivered, cfg, locals, loaded,
                   fetched, put, zipPuts, stored, raised, lastRun,
                   repeatRun>>

\* notify(): requests.post raises
NotifyFail ==
    /\ pc \in {"notify", "zipnotify"} /\ slack
    /\ Raise("notify")
    /\ UNCHANGED <<stateFile, remote, delivered, cfg, locals, history,
                   lastRun, repeatRun>>

\* line 128
MarkTransferred ==
    /\ pc = "mark"
    /\ transferred' = Append(transferred, order[i])
    /\ pc' = "archive"
    /\ UNCHANGED <<stateFile, remote, delivered, cfg, file_details, diff,
                   order, i, local_files, history, raised, lastRun,
                   repeatRun>>

\* lines 129-130 and 135-137: self.archive is truthy and the class has no
\* attribute archive_file, so the lookup raises AttributeError
ArchiveFile ==
    /\ pc = "archive"
    /\ ArchiveTruthy
    /\ Raise("AttributeError")
    /\ UNCHANGED <<stateFile, remote, delivered, cfg, locals, history,
                   lastRun, repeatRun>>

\* variant: line 132 tests self.zip only
AfterLoopNoDiffTest ==
    /\ pc = "loop" /\ i > Len(order)
    /\ pc' = IF zip THEN "zipbuild" ELSE "store"
    /\ UNCHANGED <<stateFile, remote, delivered, cfg, locals, history,
                   raised, lastRun, repeatRun>>

\* the loop of line 120 is exhausted; line 132
AfterLoop ==
    /\ pc = "loop" /\ i > Len(order)
    /\ pc' = IF diff # {} /\ zip THEN "zipbuild" ELSE "store"
    /\ UNCHANGED <<stateFile, remote, delivered, cfg, locals, history,
                   raised, lastRun, repeatRun>>

\* transfer_zip, lines 159-164: the archive holds what local_files names
ZipBuildOk ==
    /\ pc = "zipbuild"
    /\ pc' = "zipput"
    /\ UNCHANGED <<stateFile, remote, delivered, cfg, locals, history,
                   raised, lastRun, repeatRun>>

ZipBuildFail ==
    /\ pc = "zipbuild"
    /\ Raise("zipbuild")
    /\ UNCHANGED <<stateFile, remote, delivered, cfg, locals, history,
                   lastRun, repeatRun>>

\* line 166 returns
ZipPutOk ==
    /\ pc = "zipput"
    /\ zipPuts' = Append(zipPuts, Range(local_files))
    /\ delivered' = delivered \cup Range(local_files)
    /\ pc' = "zipnotify"
    /\ UNCHANGED <<stateFile, remote, cfg, locals, loaded, fetched, put,
                   posted, stored, raised, lastRun, repeatRun>>

\* line 166 raises
ZipPutFail ==
    /\ pc = "zipput"
    /\ Raise("zipput")
    /\ UNCHANGED <<stateFile, remote, delivered, cfg, locals, history,
                   lastRun, repeatRun>>

\* line 134
ExtendTransferred ==
    /\ pc = "zipmark"
    /\ transferred' = transferred \o order
    /\ pc' = "archive"
    /\ UNCHANGED <<stateFile, remote, delivered, cfg, file_details, diff,
                   order, i, local_files, history, raised, lastRun,
                   repeatRun>>

\* variant: line 134 outside the `if` of line 132
StoreStateExtended ==
    /\ pc = "store"
    /\ stateFile' = store_state(transferred \o order)
    /\ stored' = stored + 1
    /\ pc' = "done"
    /\ UNCHANGED <<remote, delivered, cfg, locals, loaded, fetched, put,
                   zipPuts, posted, raised, lastRun, repeatRun>>

\* variant: the notification is sent after the state write
StoreStateThenNotify ==
    /\ pc = "store"
    /\ stateFile' = store_state(transferred)
    /\ stored' = stored + 1
    /\ pc' = "zipnotify"
    /\ UNCHANGED <<remote, delivered, cfg, locals, loaded, fetched, put,
                   zipPuts, posted, raised, lastRun, repeatRun>>

\* variant: the list is extended by the whole listing, not by the diff
StoreStateListing ==
    /\ pc = "store"
    /\ stateFile' = store_state(transferred \o
                        (CHOOSE o \in Orders(DOMAIN file_details) : TRUE))
    /\ stored' = stored + 1
    /\ pc' = "done"
    /\ UNCHANGED <<remote, delivered, cfg, locals, loaded, fetched, put,
                   zipPuts, posted, raised, lastRun, repeatRun>>

\* variant: only the diff is stored
StoreStateDiffOnly ==
    /\ pc = "store"
    /\ stateFile' = store_state(order)
    /\ stored' = stored + 1
    /\ pc' = "done"
    /\ UNCHANGED <<remote, delivered, cfg, locals, loaded, fetched, put,
                   zipPuts, posted, raised, lastRun, repeatRun>>

\* line 139
StoreState ==
    /\ pc = "store"
    /\ stateFile' = store_state(transferred)
    /\ stored' = stored + 1
    /\ pc' = "done"
    /\ UNCHANGED <<remote, delivered, cfg, locals, loaded, fetched, put,
                   zipPuts, posted, raised, lastRun, repeatRun>>

\* line 139 does not finish: the process is killed or pickle.dump raises
\* (disk full) after open(..., 'wb') has truncated the file
StoreStateTorn ==
    /\ pc = "store"
    /\ stateFile' = TornStateFile
    /\ stored' = stored + 1
    /\ Raise("store")
    /\ UNCHANGED <<remote, delivered, cfg, locals, loaded, fetched, put,
                   zipPuts, posted, lastRun, repeatRun>>

\* the process is gone; its memory with it
Exit ==
    /\ pc \in {"done", "aborted"}
    /\ lastRun' = IF ~dry_run /\ raised \in {"none", "AttributeError"}
                  THEN ModeOf(zip) ELSE "none"
    /\ pc' = "idle"
    /\ dry_run' = FALSE /\ zip' = FALSE /\ slack' = FALSE
    /\ config' = NoConfig /\ conns' = <<>>
    /\ transferred' = <<>> /\ file_details' = NoDetails /\ diff' = {}
    /\ order' = <<>> /\ i' = 1 /\ local_files' = <<>>
    /\ loaded' = <<>> /\ fetched' = {} /\ put' = {} /\ zipPuts' = <<>>
    /\ posted' = 0 /\ raised' = "none" /\ stored' = 0
    /\ repeatRun' = FALSE
    /\ UNCHANGED <<stateFile, remote, delivered>>

Next ==
    \/ EnvChange
    \/ Main
    \/ TransferBegin
    \/ LoopDryRun
    \/ DownloadOk
    \/ DownloadFail
    \/ PutOk
    \/ PutFail
    \/ NotifySkip
    \/ NotifyOk
    \/ NotifyFail
    \/ MarkTransferred
    \/ ArchiveFile
    \/ AfterLoop
    \/ ZipBuildOk
    \/ ZipBuildFail
    \/ ZipPutOk
    \/ ZipPutFail
    \/ ExtendTransferred
    \/ StoreState
    \/ Exit

Spec == Init /\ [][Next]_vars
SpecSeeded == InitSeeded /\ [][Next]_vars

\* the same program where a state write can be cut short
NextCrash ==
    \/ Next
    \/ StoreStateTorn
    \/ LoadStateRaises

SpecCrash == Init /\ [][NextCrash]_vars

\* the same program started over any configuration file
NextConfig ==
    \/ Next
    \/ MainConfig
    \/ GetConfigOk
    \/ GetConfigExit
    \/ ConfigExit
    \/ ConnectOk
    \/ ConnectFail

SpecConfig == Init /\ [][NextConfig]_vars

\* ------------------------------------------------------------ properties
Persisted == Range(load_state(stateFile))
RunEnded == pc \in {"done", "aborted"}
InTransfer == pc \notin {"idle", "transfer"}
NonZeroListed == {f \in DOMAIN remote : remote[f] # 0}

\* C1: from no state file, every filename in the state file was put to the
\* destination (alone, or inside an archive that held it) without error.
C1_PersistedWerePut == Persisted \subseteq delivered

\* a run wrote the state file after files had been put in an earlier run
C1_Witness ==
    /\ pc = "done" /\ stored = 1 /\ stateFile.exists
    /\ delivered # {}
    /\ Persisted \subseteq delivered

\* C2 (as claimed): a non-dry run that repeats a non-dry run of the same
\* mode, no remote call of which failed, with nothing new at the source in
\* between, fetches nothing and puts nothing.
C2_SecondRunTransfersNothing ==
    repeatRun => fetched = {} /\ put = {} /\ zipPuts = <<>>

\* C3 (as claimed): a direct run over a diff of three files in which a
\* fetch or a put fails does not abort.
C3_DirectFailureDoesNotAbort ==
    (~dry_run /\ ~zip /\ Cardinality(diff) = 3 /\ raised \in {"fetch", "put"})
        => pc # "aborted"

\* C4: after a zip run in which a download, the build of the archive or
\* its put failed, no filename of the run's diff is in the state file.
C4_ZipAllOrNothing ==
    (zip /\ raised \in {"fetch", "zipbuild", "zipput"})
        => Persisted \cap diff = {}

\* one member was staged, the next download failed
C4_Witness ==
    /\ zip /\ ~dry_run /\ pc = "aborted" /\ raised = "fetch"
    /\ fetched # {} /\ Cardinality(diff) >= 2
    /\ Persisted \cap diff = {}

\* C5 (as claimed): a zip run over a non-empty diff in which no remote
\* call fails puts the archive once and ends with the state file holding
\* the loaded state plus the diff.
C5_ZipSuccessPersistsDiff ==
    (zip /\ ~dry_run /\ diff # {} /\ RunEnded
         /\ raised \in {"none", "AttributeError"})
        => /\ Len(zipPuts) = 1
           /\ stateFile.exists
           /\ Persisted = Range(loaded) \cup diff

\* C6: throughout and after a dry run, load_state returns what it returned
\* at the start of the run.
C6_DryRunKeepsLoad ==
    (dry_run /\ InTransfer) => load_state(stateFile) = loaded

\* a dry run over a non-empty state and pending files wrote the state file
C6_Witness ==
    /\ dry_run /\ pc = "done" /\ stored = 1
    /\ loaded # <<>> /\ diff # {}
    /\ load_state(stateFile) = loaded

\* C7 (as claimed): a dry run fetches nothing, puts nothing, does not write
\* the state file and posts no notification.
C7_DryRunDoesNothing ==
    dry_run => /\ fetched = {} /\ put = {} /\ zipPuts = <<>>
               /\ stored = 0 /\ posted = 0

\* C8 (as claimed): the diff is every listed filename that is not in the
\* loaded state, and only files of the diff are fetched or put.
C8_DiffIsListedMinusLoaded ==
    InTransfer =>
        /\ diff = DOMAIN remote \ Range(loaded)
        /\ fetched \subseteq diff /\ put \subseteq diff
        /\ \A k \in DOMAIN zipPuts : zipPuts[k] \subseteq diff

\* C8 (amended): the diff is every listed filename of non-zero size that
\* is not in the loaded state, and only files of the diff are fetched or
\* put.
C8_DiffIsNonZeroListedMinusLoaded ==
    InTransfer =>
        /\ diff = NonZeroListed \ Range(loaded)
        /\ fetched \subseteq diff /\ put \subseteq diff
        /\ \A k \in DOMAIN zipPuts : zipPuts[k] \subseteq diff

\* a file of the loaded state is still listed with data, another was fetched
C8_Witness ==
    /\ InTransfer
    /\ Range(loaded) \cap NonZeroListed # {}
    /\ fetched # {} /\ fetched \cap Range(loaded) = {}
    /\ diff = NonZeroListed \ Range(loaded)

\* C9 (as claimed): a webhook POST that fails after a put does not abort
\* the run.
C9_NotifyFailureDoesNotAbort ==
    ~(raised = "notify" /\ pc = "aborted")

\* C10 (as claimed): when the archival step after a successful put fails,
\* the run goes on to the state write and the file stays recorded.
C10_ArchivalFailureIsNotFatal ==
    (raised = "AttributeError" /\ RunEnded)
        => /\ pc = "done"
           /\ put \cup UNION Range(zipPuts) \subseteq Persisted

\* C11 (as claimed): after a state write that did not finish, the state
\* file unpickles, to the list the run loaded or to the list it was saving.
C11_SaveIsAtomic ==
    raised = "store"
        => /\ ~Unpicklable(stateFile)
           /\ load_state(stateFile) \in {loaded, transferred}

\* C12: with no state file load_state returns the empty list; over a state
\* file that does not unpickle the run ends in load_state, having fetched,
\* put and written nothing, and no run ever goes on over such a file.
C12_LoadEmptyOrFail ==
    /\ (InTransfer /\ ~stateFile.exists) => loaded = <<>>
    /\ raised = "unpickle"
          => /\ pc = "aborted" /\ Unpicklable(stateFile)
             /\ fetched = {} /\ put = {} /\ zipPuts = <<>>
             /\ stored = 0 /\ posted = 0
    /\ (InTransfer /\ Unpicklable(stateFile))
          => pc = "aborted" /\ raised \in {"unpickle", "store"}

\* a run over a torn state file ended in load_state with files pending
C12_Witness ==
    /\ pc = "aborted" /\ raised = "unpickle"
    /\ Unpicklable(stateFile) /\ NonZeroListed # {}
    /\ fetched = {} /\ put = {}

\* C13 (as claimed): a run that ends on a configuration error has asked
\* for no connection, to either endpoint.
C13_ConfigErrorsBeforeNetwork ==
    raised = "SystemExit" => conns = <<>>

\* C16 (as claimed): a connection is opened on the PORT of its section when
\* the key is there, and on 22 when it is not.
C16_PortAsConfigured ==
    [][(pc \in {"connect_source", "connect_dest"} /\ conns' # conns)
          => conns'[Len(conns')].port =
                 IF config[Endpoint].PORT = "absent" THEN default_port
                 ELSE ParseInt(config[Endpoint].PORT)]_vars

\* webhook POSTs this run made, the one that raised included
Attempts == posted + (IF raised = "notify" THEN 1 ELSE 0)
Zipped == UNION Range(zipPuts)
NoDup(s) == \A a, b \in DOMAIN s : s[a] = s[b] => a = b

\* C14: a listed file of size 0 is never in the diff, never fetched, put,
\* staged for the archive or added to the state; every listed file of
\* non-zero size that is not in the loaded state is in the diff.
C14_ZeroByteNeverTransferred ==
    InTransfer =>
        \A f \in DOMAIN remote :
            IF remote[f] = 0
            THEN /\ f \notin diff \cup fetched \cup put \cup Zipped
                 /\ f \notin Range(local_files)
                 /\ f \in Range(transferred) \cup Persisted
                        => f \in Range(loaded)
            ELSE f \notin Range(loaded) => f \in diff

\* a zero-byte file is listed next to a file with data that was fetched
C14_Witness ==
    /\ InTransfer /\ fetched # {}
    /\ \E f \in DOMAIN remote :
        remote[f] = 0 /\ f \notin Range(loaded) /\ f \notin diff

\* C15: POSTs never outnumber the puts; with a sink every put (of a file, or
\* of the one archive of a zip run) is followed by one POST; without a sink
\* or with an empty diff there is none.
C15_NotificationsFollowPuts ==
    /\ Attempts <= Cardinality(put) + Len(zipPuts)
    /\ pc \notin {"notify", "zipnotify"} =>
           Attempts = IF slack THEN Cardinality(put) + Len(zipPuts) ELSE 0
    /\ Len(zipPuts) <= 1
    /\ zip => put = {}
    /\ ~zip => zipPuts = <<>>
    /\ diff = {} => Attempts = 0

\* a zip run over two files or more posted its one notification
C15_Witness ==
    /\ zip /\ slack /\ ~dry_run /\ Cardinality(diff) >= 2
    /\ Len(zipPuts) = 1 /\ posted = 1

C18_RenameOnlyAfterPut ==
    [][(pc # "idle" /\ remote' # remote)
          => (DOMAIN remote \ DOMAIN remote') \subseteq put \cup Zipped]_vars

\* the put of a file raised and the file is still listed at the source
C18_Witness ==
    /\ pc = "aborted" /\ raised = "put"
    /\ order[i] \in DOMAIN remote /\ order[i] \notin put

\* C19: the list in the state file names no file twice.
C19_PersistedHasNoDuplicates == NoDup(load_state(stateFile))

\* a non-dry run wrote a list of two names or more
C19_Witness ==
    /\ ~dry_run /\ stored = 1 /\ Len(load_state(stateFile)) >= 2
    /\ NoDup(load_state(stateFile))

\* C20: what a run writes to the state file contains every filename
\* load_state returned at the start of that run.
C20_StoreKeepsLoaded ==
    stored >= 1 => Range(loaded) \subseteq Persisted

\* the state was written back although a recorded file is no longer listed
C20_Witness ==
    /\ stored = 1 /\ pc = "done"
    /\ \E f \in Range(loaded) : f \notin DOMAIN remote /\ f \in Persisted

TypeOK ==
    /\ stateFile.exists \in BOOLEAN
    /\ stateFile.whole \in BOOLEAN
    /\ remote \in Listings
    /\ delivered \subseteq Files
    /\ diff \subseteq Files
====
